---- MODULE Spec2Model ----
(***************************************************************************)
(* A model of megasena.py: the analysis functions over the draw history    *)
(* (a pandas DataFrame), over the frequency table (a pandas Series), the  *)
(* number suggestion, and the session state of the dashboard (main).       *)
(*                                                                         *)
(* A DataFrame is [columns, rows]; a row is a function from column names   *)
(* to values.  A Series is a sequence of <<index, value>> pairs, in the    *)
(* order the Series holds them.  A dict is a function.  The column 'Data'  *)
(* (the date of a draw) is read by no analysis function and is left out.   *)
(*                                                                         *)
(* The st.cache_data decorator belongs to streamlit; a call is modelled as *)
(* an execution of the function body, which is what the first call with a  *)
(* given argument always is.                                               *)
(***************************************************************************)
EXTENDS Integers, Sequences, FiniteSets, TLC

VARIABLES
    data,   \* the DataFrame of draws the caller holds (st.session_state['data'])
    op,     \* the function that was called last and has not returned to "idle"
    args,   \* the arguments of that call other than data
    ret,    \* the value that call returned
    session \* st.session_state without 'data': freqs, most_common,
            \* least_common, num_dezenas_to_play, suggested_game

vars == <<data, op, args, ret, session>>

(***************************************************************************)
(* Bounds and program constants.                                           *)
(***************************************************************************)
\* The largest number of the lottery: 60 in the code, scaled down.
MaxNumber == 9
\* The largest number of draws in a history.
MaxDraws == 2
\* The numbers drawn in one draw: the columns Dezena1 .. Dezena6.
DrawSize == 6
\* head(min(4, len(freq))) and tail(min(2, len(freq))).
MostCommonCount == 4
LeastCommonCount == 2
\* The longest frequency table and the largest count in it, where the table
\* is an input of its own.
MaxLen == 4
MaxCount == 2
\* window_size = min(10, ...)
WindowCap == 10

\* Draw ids ('Concurso') are taken from 1 .. MaxConcurso, so that a history
\* can skip an id.
MaxConcurso == MaxDraws + 1
\* The draws of a history are taken over the DrawSize + 1 smallest numbers.
HistoryNumbers == 1 .. (DrawSize + 1)

(***************************************************************************)
(* Helpers.                                                                *)
(***************************************************************************)
Range(s) == {s[i] : i \in DOMAIN s}

Min(a, b) == IF a <= b THEN a ELSE b

SetMax(S) == CHOOSE x \in S : \A y \in S : y <= x

RECURSIVE SumSeq(_)
SumSeq(s) == IF s = <<>> THEN 0 ELSE Head(s) + SumSeq(Tail(s))

RECURSIVE SortedSeq(_)
\* sorted(list(S))
SortedSeq(S) ==
    IF S = {} THEN <<>>
    ELSE LET m == CHOOSE x \in S : \A y \in S : x <= y
         IN  <<m>> \o SortedSeq(S \ {m})

\* The injective sequences over S of length at most n.
RECURSIVE DistinctSeqs(_, _)
DistinctSeqs(S, n) ==
    IF n = 0 \/ S = {} THEN {<<>>}
    ELSE {<<>>} \cup UNION {{<<x>> \o s : s \in DistinctSeqs(S \ {x}, n - 1)} : x \in S}

EmptyDict == <<>>

(***************************************************************************)
(* The DataFrame built by fetch_megasena_data.                             *)
(***************************************************************************)
\* f'Dezena{i}'
DezenaCols == <<"Dezena1", "Dezena2", "Dezena3", "Dezena4", "Dezena5", "Dezena6">>

BaseColumns == {"Concurso"} \cup Range(DezenaCols)

Row(concurso, dezenas) ==
    [col \in BaseColumns |->
        IF col = "Concurso" THEN concurso
        ELSE dezenas[CHOOSE i \in 1 .. DrawSize : DezenaCols[i] = col]]

\* One draw: DrawSize distinct numbers.
Draws == {SortedSeq(S) : S \in {T \in SUBSET HistoryNumbers : Cardinality(T) = DrawSize}}

\* sort_values(by='Concurso', ascending=True): strictly increasing draw ids.
ConcursoSeqs(k) ==
    {SortedSeq(S) : S \in {T \in SUBSET (1 .. MaxConcurso) : Cardinality(T) = k}}

Frames ==
    UNION {
        {[columns |-> BaseColumns,
          rows    |-> [i \in 1 .. k |-> Row(ids[i], ds[i])]]
            : ids \in ConcursoSeqs(k), ds \in [1 .. k -> Draws]}
        : k \in 0 .. MaxDraws}

IsEmpty(frame) == frame.rows = <<>>

Dezenas(row) == [i \in 1 .. DrawSize |-> row[DezenaCols[i]]]

(***************************************************************************)
(* pandas Series.                                                          *)
(***************************************************************************)
Index(series) == [i \in DOMAIN series |-> series[i][1]]
Values(series) == [i \in DOMAIN series |-> series[i][2]]

\* Series.head(k), Series.tail(k) for 0 <= k <= len
SeriesHead(series, k) == SubSeq(series, 1, k)
SeriesTail(series, k) == SubSeq(series, Len(series) - k + 1, Len(series))

\* Mutant: sort_values(ascending=True).
RECURSIVE SortValuesAscending(_)
SortValuesAscending(pairs) ==
    IF pairs = {} THEN {<<>>}
    ELSE LET bottom == {p \in pairs : \A q \in pairs : p[2] <= q[2]}
         IN  UNION {{<<p>> \o s : s \in SortValuesAscending(pairs \ {p})} : p \in bottom}

\* sort_values(ascending=False) with the default, unstable, sort: every order
\* of the pairs in which the values do not increase.
RECURSIVE SortValuesDescending(_)
SortValuesDescending(pairs) ==
    IF pairs = {} THEN {<<>>}
    ELSE LET top == {p \in pairs : \A q \in pairs : q[2] <= p[2]}
         IN  UNION {{<<p>> \o s : s \in SortValuesDescending(pairs \ {p})} : p \in top}

\* pd.Series(numbers).value_counts(), as a set of <<number, count>> pairs.
ValueCounts(numbers) ==
    {<<n, Cardinality({i \in DOMAIN numbers : numbers[i] = n})>> : n \in Range(numbers)}

(***************************************************************************)
(* analyze_numbers                                                         *)
(***************************************************************************)
RECURSIVE ColumnNumbers(_, _)
\* numbers.extend(data[col_name].dropna().tolist()) for Dezena i .. Dezena6
ColumnNumbers(frame, i) ==
    IF i > DrawSize THEN <<>>
    ELSE (IF DezenaCols[i] \in frame.columns
          THEN [r \in 1 .. Len(frame.rows) |-> frame.rows[r][DezenaCols[i]]]
          ELSE <<>>) \o ColumnNumbers(frame, i + 1)

\* Mutant: the range test written 1 < int(n) <= 60.
NumericNumbersAboveOne(frame) ==
    SelectSeq(ColumnNumbers(frame, 1), LAMBDA n : 1 < n /\ n <= MaxNumber)

NumericNumbers(frame) ==
    SelectSeq(ColumnNumbers(frame, 1), LAMBDA n : 1 <= n /\ n <= MaxNumber)

\* The values analyze_numbers can return: one for each order of the ties.
analyze_numbers(frame) ==
    LET numeric_numbers == NumericNumbers(frame)
    IN  IF numeric_numbers = <<>>
        THEN {[freq |-> <<>>, most_common |-> <<>>, least_common |-> <<>>,
               numbers |-> <<>>]}
        ELSE {[freq         |-> freq,
               most_common  |-> Index(SeriesHead(freq, Min(MostCommonCount, Len(freq)))),
               least_common |-> Index(SeriesTail(freq, Min(LeastCommonCount, Len(freq)))),
               numbers      |-> numeric_numbers]
                : freq \in SortValuesDescending(ValueCounts(numeric_numbers))}

(***************************************************************************)
(* analyze_delays                                                          *)
(***************************************************************************)
Contains(row, num) == \E i \in 1 .. DrawSize : row[DezenaCols[i]] = num

Concursos(rows) == {rows[i]["Concurso"] : i \in DOMAIN rows}

\* Mutant: the delay counted from the first appearance of the number.
analyze_delays_from_first(frame, selected_numbers) ==
    IF IsEmpty(frame) \/ selected_numbers = <<>>
    THEN EmptyDict
    ELSE LET last_concurso == SetMax(Concursos(frame.rows))
             Delay(num) ==
                 LET num_occurrences == SelectSeq(frame.rows, LAMBDA r : Contains(r, num))
                 IN  IF num_occurrences # <<>>
                     THEN last_concurso - (0 - SetMax({0 - c : c \in Concursos(num_occurrences)}))
                     ELSE -1
         IN  [num \in Range(selected_numbers) |-> Delay(num)]

\* Mutant: a number that never appeared gets the delay 0.
analyze_delays_never_is_zero(frame, selected_numbers) ==
    IF IsEmpty(frame) \/ selected_numbers = <<>>
    THEN EmptyDict
    ELSE LET last_concurso == SetMax(Concursos(frame.rows))
             Delay(num) ==
                 LET num_occurrences == SelectSeq(frame.rows, LAMBDA r : Contains(r, num))
                 IN  IF num_occurrences # <<>>
                     THEN last_concurso - SetMax(Concursos(num_occurrences))
                     ELSE 0
         IN  [num \in Range(selected_numbers) |-> Delay(num)]

analyze_delays(frame, selected_numbers) ==
    IF IsEmpty(frame) \/ selected_numbers = <<>>
    THEN EmptyDict
    ELSE LET last_concurso == SetMax(Concursos(frame.rows))
             Delay(num) ==
                 LET num_occurrences == SelectSeq(frame.rows, LAMBDA r : Contains(r, num))
                 IN  IF num_occurrences # <<>>
                     THEN last_concurso - SetMax(Concursos(num_occurrences))
                     ELSE -1
         IN  [num \in Range(selected_numbers) |-> Delay(num)]

(***************************************************************************)
(* analyze_drawing_patterns                                                *)
(***************************************************************************)
\* f'{k[0]} Pares / {k[1]} Impares'
Label(even_count, odd_count) == <<even_count, "Pares", odd_count, "Impares">>

\* Mutant: the parity test written num % 2 == 1.
IsOdd(num) == num % 2 = 1

IsEven(num) == num % 2 = 0

EvenCount(row) == Cardinality({i \in 1 .. DrawSize : IsEven(row[DezenaCols[i]])})

SomaDezenas(row) == SumSeq(Dezenas(row))

\* data['SomaDezenas'] = data[[...]].sum(axis=1): the frame after the call.
WithSomaDezenas(frame) ==
    [columns |-> frame.columns \cup {"SomaDezenas"},
     rows    |-> [i \in DOMAIN frame.rows |->
                    [col \in (DOMAIN frame.rows[i]) \cup {"SomaDezenas"} |->
                        IF col = "SomaDezenas" THEN SomaDezenas(frame.rows[i])
                        ELSE frame.rows[i][col]]]]

\* round(x, 2) of x = num / den > 0, in hundredths.
Round2(num, den) == (200 * num + den) \div (2 * den)

\* collections.Counter(zip(even_counts, odd_counts)), keys formatted.
EvenOddDistribution(rows) ==
    LET even_counts == [i \in DOMAIN rows |-> EvenCount(rows[i])]
        odd_counts  == [i \in DOMAIN rows |-> DrawSize - even_counts[i]]
        keys        == {<<even_counts[i], odd_counts[i]>> : i \in DOMAIN rows}
        dist        == [lbl \in {Label(k[1], k[2]) : k \in keys} |->
                          Cardinality({i \in DOMAIN rows :
                              Label(even_counts[i], odd_counts[i]) = lbl})]
    IN  dist

\* The pair analyze_drawing_patterns returns.
analyze_drawing_patterns(frame) ==
    IF IsEmpty(frame)
    THEN [general_stats |-> EmptyDict, even_odd_distribution |-> EmptyDict]
    ELSE LET soma == [i \in DOMAIN frame.rows |-> SomaDezenas(frame.rows[i])]
         IN  [general_stats |-> [average_sum |-> Round2(SumSeq(soma), Len(soma))],
              even_odd_distribution |-> EvenOddDistribution(frame.rows)]

\* The frame the caller holds after analyze_drawing_patterns(frame).
PatternsFrame(frame) ==
    IF IsEmpty(frame) THEN frame ELSE WithSomaDezenas(frame)

(***************************************************************************)
(* suggest_numbers                                                         *)
(***************************************************************************)
\* Mutant: all_possible_numbers = set(range(1, 60)).
AllButTheLargestNumber == 1 .. (MaxNumber - 1)

\* all_possible_numbers = set(range(1, 61))
AllPossibleNumbers == 1 .. MaxNumber

\* The subsets of S with k elements.
Subsets(S, k) == {T \in SUBSET S : Cardinality(T) = k}

Returned(value) == [raised |-> "none", value |-> value]
Raised(exception) == [raised |-> exception, value |-> <<>>]

RECURSIVE AddMostCommonOneMore(_, _, _)
\* Mutant: the first loop written len(suggested_set) <= num_to_suggest.
AddMostCommonOneMore(most_common, suggested_set, num_to_suggest) ==
    IF most_common = <<>> THEN suggested_set
    ELSE IF Cardinality(suggested_set) <= num_to_suggest
         THEN AddMostCommonOneMore(Tail(most_common),
                                   suggested_set \cup {Head(most_common)}, num_to_suggest)
         ELSE suggested_set

RECURSIVE AddMostCommon(_, _, _)
\* for num in most_common: add while len(suggested_set) < num_to_suggest
AddMostCommon(most_common, suggested_set, num_to_suggest) ==
    IF most_common = <<>> THEN suggested_set
    ELSE IF Cardinality(suggested_set) < num_to_suggest
         THEN AddMostCommon(Tail(most_common), suggested_set \cup {Head(most_common)},
                            num_to_suggest)
         ELSE suggested_set

RECURSIVE AddLeastCommon(_, _, _)
\* for num in least_common: add while there is room and num is new; else break
AddLeastCommon(least_common, suggested_set, num_to_suggest) ==
    IF least_common = <<>> THEN suggested_set
    ELSE IF /\ Cardinality(suggested_set) < num_to_suggest
            /\ Head(least_common) \notin suggested_set
         THEN AddLeastCommon(Tail(least_common), suggested_set \cup {Head(least_common)},
                             num_to_suggest)
         ELSE suggested_set

\* random.shuffle(available_numbers) and the while loop: the sets
\* suggested_set can be after it.
RandomFill(suggested_set, num_to_suggest) ==
    LET available_numbers == AllPossibleNumbers \ suggested_set
        needed == num_to_suggest - Cardinality(suggested_set)
        taken  == IF needed <= 0 THEN 0 ELSE Min(needed, Cardinality(available_numbers))
    IN  {suggested_set \cup added : added \in Subsets(available_numbers, taken)}

\* random.sample(population, k) raises ValueError for a negative k and for a
\* k larger than the population; otherwise it returns k of its elements.
SampleRaises(population, k) == k < 0 \/ k > Cardinality(population)

RandomSample(population, k) == Subsets(population, k)

\* Lines 284-299: what is returned for one value of suggested_set.
FinalSuggestion(suggested_set, num_to_suggest) ==
    LET final_suggestion == SortedSeq(suggested_set)
    IN  IF Len(final_suggestion) > num_to_suggest
        THEN IF SampleRaises(suggested_set, num_to_suggest)
             THEN {Raised("ValueError")}
             ELSE {Returned(SortedSeq(sample))
                     : sample \in RandomSample(suggested_set, num_to_suggest)}
        ELSE IF Len(final_suggestion) < num_to_suggest
        THEN LET remaining_needed == num_to_suggest - Len(final_suggestion)
                 remaining_available == AllPossibleNumbers \ suggested_set
                 k == Min(remaining_needed, Cardinality(remaining_available))
             IN  IF SampleRaises(remaining_available, k)
                 THEN {Raised("ValueError")}
                 ELSE {Returned(SortedSeq(suggested_set \cup sample))
                         : sample \in RandomSample(remaining_available, k)}
        ELSE {Returned(final_suggestion)}

\* The outcomes of suggest_numbers, one for each outcome of the random choices.
suggest_numbers(most_common, least_common, num_to_suggest) ==
    LET hot  == AddMostCommon(most_common, {}, num_to_suggest)
        cold == AddLeastCommon(least_common, hot, num_to_suggest)
    IN  UNION {FinalSuggestion(suggested_set, num_to_suggest)
                 : suggested_set \in RandomFill(cold, num_to_suggest)}

(***************************************************************************)
(* Calls of suggest_numbers.  The lists hold distinct numbers, at most as  *)
(* many as analyze_numbers returns; the ticket size is any integer from -1 *)
(* to one more than the largest number.                                    *)
(***************************************************************************)
ListNumbers == 1 .. MostCommonCount

TicketSizes == (-1) .. (MaxNumber + 1)

SuggestInputs ==
    [most_common    : DistinctSeqs(ListNumbers, MostCommonCount),
     least_common   : DistinctSeqs(ListNumbers, LeastCommonCount),
     num_to_suggest : TicketSizes]

NoFrame == [columns |-> BaseColumns, rows |-> <<>>]

\* st.session_state['num_dezenas_to_play'] = 6
DefaultDezenas == 6

\* The session state main sets up.  None is held as the empty list: main reads
\* freqs, most_common and least_common only after a fetch has set them or
\* through their truth value, which None and [] share.
InitialSession ==
    [freqs               |-> <<>>,
     most_common         |-> <<>>,
     least_common        |-> <<>>,
     num_dezenas_to_play |-> DefaultDezenas,
     suggested_game      |-> <<>>]

InitSuggest ==
    /\ data = NoFrame
    /\ op = "idle"
    /\ args \in SuggestInputs
    /\ ret = <<>>
    /\ session = InitialSession

SuggestNumbers ==
    /\ op = "idle"
    /\ \E r \in suggest_numbers(args.most_common, args.least_common, args.num_to_suggest) :
        ret' = r
    /\ op' = "suggest_numbers"
    /\ UNCHANGED <<data, args, session>>

\* The caller drops the value and keeps the inputs: it can call again.
CallAgain ==
    /\ op # "idle"
    /\ op' = "idle"
    /\ ret' = <<>>
    /\ UNCHANGED <<data, args, session>>

NextSuggest ==
    \/ SuggestNumbers
    \/ CallAgain

SpecSuggest == InitSuggest /\ [][NextSuggest]_vars

(***************************************************************************)
(* The analysis of a draw history: the calls main makes on the DataFrame.  *)
(* analyze_numbers, which neither changes the DataFrame nor reads a draw   *)
(* id, has a specification of its own below (SpecNumbers).                 *)
(***************************************************************************)
\* The numbers whose delay is asked for: drawn or not, valid or not.
SelectedCandidates == HistoryNumbers \cup {MaxNumber + 1}

SelectedLists == DistinctSeqs(SelectedCandidates, 2)

Init ==
    /\ data \in Frames
    /\ op = "idle"
    /\ args = <<>>
    /\ ret = <<>>
    /\ session = InitialSession

AnalyzeNumbers ==
    /\ op = "idle"
    /\ \E r \in analyze_numbers(data) : ret' = r
    /\ op' = "analyze_numbers"
    /\ args' = <<>>
    /\ UNCHANGED <<data, session>>

AnalyzeDelays ==
    /\ op = "idle"
    /\ \E selected_numbers \in SelectedLists :
        /\ args' = selected_numbers
        /\ ret' = analyze_delays(data, selected_numbers)
    /\ op' = "analyze_delays"
    /\ UNCHANGED <<data, session>>

AnalyzeDrawingPatterns ==
    /\ op = "idle"
    /\ ret' = analyze_drawing_patterns(data)
    /\ data' = PatternsFrame(data)
    /\ op' = "analyze_drawing_patterns"
    /\ args' = <<>>
    /\ UNCHANGED session

\* The call returns and its value is dropped.
Return ==
    /\ op # "idle"
    /\ op' = "idle"
    /\ args' = <<>>
    /\ ret' = <<>>
    /\ UNCHANGED <<data, session>>

Next ==
    \/ AnalyzeDelays
    \/ AnalyzeDrawingPatterns
    \/ Return

Spec == Init /\ [][Next]_vars

(***************************************************************************)
(* The frequency analysis of a draw history.  The draw ids, which          *)
(* analyze_numbers does not read, are 1 .. len(H).                         *)
(***************************************************************************)
InitNumbers ==
    /\ data \in {frame \in Frames :
            \A i \in DOMAIN frame.rows : frame.rows[i]["Concurso"] = i}
    /\ op = "idle"
    /\ args = <<>>
    /\ ret = <<>>
    /\ session = InitialSession

NextNumbers ==
    \/ AnalyzeNumbers
    \/ Return

SpecNumbers == InitNumbers /\ [][NextNumbers]_vars

(***************************************************************************)
(* calculate_probabilities.  A percentage is the exact fraction <<n, d>>;  *)
(* the rounding of the floating-point division is not modelled.            *)
(***************************************************************************)
FracLeq(a, b) == a[1] * b[2] <= b[1] * a[2]

FracAdd(a, b) == <<a[1] * b[2] + b[1] * a[2], a[2] * b[2]>>

\* Mutant: the total taken as the number of entries, len(frequencies).
NumberOfEntries(frequencies) == Len(frequencies)

\* frequencies.sum()
Total(frequencies) == SumSeq(Values(frequencies))

\* sort_values(ascending=False) on fractions: every order in which the values
\* do not increase.
RECURSIVE SortFractionsDescending(_)
SortFractionsDescending(pairs) ==
    IF pairs = {} THEN {<<>>}
    ELSE LET top == {p \in pairs : \A q \in pairs : FracLeq(q[2], p[2])}
         IN  UNION {{<<p>> \o s : s \in SortFractionsDescending(pairs \ {p})} : p \in top}

\* The Series calculate_probabilities can return.
calculate_probabilities(frequencies) ==
    IF frequencies = <<>> THEN {<<>>}
    ELSE LET total_draws_count == Total(frequencies)
         IN  IF total_draws_count = 0 THEN {<<>>}
             ELSE SortFractionsDescending(
                    {<<frequencies[i][1], <<100 * frequencies[i][2], total_draws_count>>>>
                        : i \in DOMAIN frequencies})

(***************************************************************************)
(* analyze_outliers.  The moving average is kept as the window sums and    *)
(* the window size they are divided by, so that every comparison is exact. *)
(***************************************************************************)
Max(a, b) == IF a >= b THEN a ELSE b

\* np.convolve(data, window, 'same')[i - 1] * window_size, for window_size > 0:
\* the sum of the values under the window centred at i.
WindowSum(y, window_size, i) ==
    LET k == (i - 1) + ((Min(Len(y), window_size) - 1) \div 2)
    IN  SumSeq([j \in 1 .. window_size |->
            IF (k - window_size + 1 + j) \in DOMAIN y
            THEN y[k - window_size + 1 + j] ELSE 0])

\* moving_average(data, window_size): [sums, size], the average at i being
\* sums[i] / size.
moving_average(y, window_size) ==
    IF window_size <= 0
    THEN [sums |-> [i \in DOMAIN y |-> 0], size |-> 1]
    ELSE [sums |-> [i \in 1 .. Max(Len(y), window_size) |-> WindowSum(y, window_size, i)],
          size |-> window_size]

RECURSIVE NearestRoot(_, _, _, _)
\* The largest s in lo .. hi with (2s - 1) * d <= 2 * sqrt(n): the integer
\* nearest to sqrt(n) / d.
NearestRoot(n, d, lo, hi) ==
    IF lo >= hi THEN lo
    ELSE LET mid == (lo + hi + 1) \div 2
         IN  IF (2 * mid - 1) * (2 * mid - 1) * d * d <= 4 * n
             THEN NearestRoot(n, d, mid, hi)
             ELSE NearestRoot(n, d, lo, mid - 1)

\* Mutant: the comparison of the guard turned around, len(y) > window_size.
TooLong(y, window_size) == Len(y) > window_size

\* len(y) < window_size
TooShort(y, window_size) == Len(y) < window_size

NoAnomalies == [raised |-> "none", standard_deviation |-> 0, anomalies |-> <<>>]

\* explain_anomalies(y, window_size, sigma), sigma = <<num, den>>, for the
\* Series frequencies that y was taken from.  standard_deviation is in
\* hundredths; anomalies is the OrderedDict as a sequence of <<key, value>>.
explain_anomalies(frequencies, y, window_size, sigma) ==
    IF TooShort(y, window_size) THEN NoAnomalies
    ELSE
    LET avg == moving_average(y, window_size)
        n   == Len(avg.sums)
    IN  IF n # Len(y) /\ Len(y) # 1
        THEN [raised |-> "ValueError", standard_deviation |-> 0, anomalies |-> <<>>]
        ELSE
        LET \* residual = y - avg (y is broadcast when it has one element),
            \* times avg.size
            residual == [i \in 1 .. n |->
                            avg.size * (IF Len(y) = n THEN y[i] ELSE y[1]) - avg.sums[i]]
            \* the variance of residual, times (n * avg.size)^2
            variance == n * SumSeq([i \in 1 .. n |-> residual[i] * residual[i]])
                          - SumSeq(residual) * SumSeq(residual)
            peak     == SetMax({0} \cup Range(y))
            std      == NearestRoot(10000 * variance, n * avg.size, 0, 100 * peak)
            \* y_i > avg_i + sigma * std  or  y_i < avg_i - sigma * std
            Outside(i) ==
                LET r == avg.size * y[i] - avg.sums[i]
                IN  /\ r # 0
                    /\ r * r * n * n * sigma[2] * sigma[2] > sigma[1] * sigma[1] * variance
            flagged  == SelectSeq([i \in 1 .. Min(Len(y), n) |-> i],
                                  LAMBDA i : Outside(i) /\ i <= Len(frequencies))
        IN  [raised |-> "none",
             standard_deviation |-> std,
             anomalies |-> [k \in DOMAIN flagged |->
                              <<frequencies[flagged[k]][1], y[flagged[k]]>>]]

\* window_size = min(10, len(frequencies) // 2 if len(frequencies) > 0 else 1)
DefaultWindowSize(frequencies) ==
    Min(WindowCap, IF Len(frequencies) > 0 THEN Len(frequencies) \div 2 ELSE 1)

\* sigma_value = 1.5, and the default sigma=1.0 of explain_anomalies
SigmaValue == <<3, 2>>
DefaultSigma == <<1, 1>>

analyze_outliers(frequencies) ==
    IF frequencies = <<>>
    THEN [raised |-> "none", outliers |-> <<>>, standard_deviation |-> 0]
    ELSE LET y == Values(frequencies)
             events == explain_anomalies(frequencies, y,
                                         DefaultWindowSize(frequencies), SigmaValue)
         IN  [raised |-> events.raised,
              outliers |-> Index(events.anomalies),
              standard_deviation |-> events.standard_deviation]

(***************************************************************************)
(* Calls on a frequency table: a Series of counts with distinct index      *)
(* labels, in any order.                                                   *)
(***************************************************************************)
Labelings(len) == {[i \in 1 .. len |-> i], [i \in 1 .. len |-> len + 1 - i]}

FrequencyTables ==
    UNION {
        {[i \in 1 .. len |-> <<labels[i], counts[i]>>]
            : labels \in Labelings(len), counts \in [1 .. len -> 0 .. MaxCount]}
        : len \in 0 .. MaxLen}

WindowSizes == (-1) .. (MaxLen + 1)

InitTable ==
    /\ data = NoFrame
    /\ op = "idle"
    /\ args \in [frequencies : FrequencyTables]
    /\ ret = <<>>
    /\ session = InitialSession

CalculateProbabilities ==
    /\ op = "idle"
    /\ \E r \in calculate_probabilities(args.frequencies) : ret' = r
    /\ op' = "calculate_probabilities"
    /\ UNCHANGED <<data, args, session>>

AnalyzeOutliers ==
    /\ op = "idle"
    /\ ret' = analyze_outliers(args.frequencies)
    /\ op' = "analyze_outliers"
    /\ UNCHANGED <<data, args, session>>

\* The nested explain_anomalies on y = frequencies.values, with any window
\* size and either sigma.
ExplainAnomalies ==
    /\ op = "idle"
    /\ args.frequencies # <<>>
    /\ \E window_size \in WindowSizes, sigma \in {DefaultSigma, SigmaValue} :
        /\ args' = [frequencies |-> args.frequencies,
                    window_size |-> window_size, sigma |-> sigma]
        /\ ret' = explain_anomalies(args.frequencies, Values(args.frequencies),
                                    window_size, sigma)
    /\ op' = "explain_anomalies"
    /\ UNCHANGED <<data, session>>

\* The caller drops the value and keeps the table.
ReturnTable ==
    /\ op # "idle"
    /\ op' = "idle"
    /\ args' = [frequencies |-> args.frequencies]
    /\ ret' = <<>>
    /\ UNCHANGED <<data, session>>

NextTable ==
    \/ CalculateProbabilities
    \/ AnalyzeOutliers
    \/ ExplainAnomalies
    \/ ReturnTable

SpecTable == InitTable /\ [][NextTable]_vars

(***************************************************************************)
(* The dashboard session: main is run once for each event of the page and  *)
(* an event is modelled with the runs it causes, st.rerun() included.      *)
(* fetch_megasena_data keeps a row that has a draw id and six integers; it *)
(* does not look at their range.  Two histories of MaxDraws draws are      *)
(* fetched: one of numbers of the lottery, one of numbers above MaxNumber. *)
(***************************************************************************)
\* st.slider(min_value=6, max_value=20): the largest ticket is scaled down to
\* stay below the largest number, as 20 stays below 60.
SliderMin == 6
SliderMax == MaxNumber - 1
SliderValues == SliderMin .. SliderMax

\* Draw i of a fetched history: DrawSize numbers in a row, from first + i on.
History(first) ==
    [columns |-> BaseColumns,
     rows    |-> [i \in 1 .. MaxDraws |->
                    Row(i, [j \in 1 .. DrawSize |-> first + i + j - 1])]]

ValidHistory == History(0)
OutOfRangeHistory == History(MaxNumber)
FetchedFrames == {ValidHistory, OutOfRangeHistory}

\* 'if st.session_state[...]': the truth value of a list
Truthy(list) == list # <<>>

\* The sections main shows once data is loaded: of the analysis calls, only
\* analyze_drawing_patterns changes the state (the frame held in 'data'),
\* and it is called when freqs is not empty.
Rendered(frame, freqs) ==
    IF freqs = <<>> THEN frame ELSE PatternsFrame(frame)

\* The button 'Buscar Ultimos Resultados' when the fetch returns None or an
\* empty frame: the state is cleared, the ticket size stays.
FetchFails ==
    /\ data' = NoFrame
    /\ session' = [session EXCEPT !.freqs = <<>>,
                                  !.most_common = <<>>,
                                  !.least_common = <<>>,
                                  !.suggested_game = <<>>]
    /\ UNCHANGED <<op, args, ret>>

\* The same button when the fetch returns a frame: the analysis and a first
\* suggestion are stored, then the page is run again.
FetchSucceeds ==
    /\ \E frame \in FetchedFrames :
         \E analysis \in analyze_numbers(frame) :
           \E game \in suggest_numbers(analysis.most_common, analysis.least_common,
                                       session.num_dezenas_to_play) :
              /\ game.raised = "none"
              /\ session' = [session EXCEPT !.freqs = analysis.freq,
                                            !.most_common = analysis.most_common,
                                            !.least_common = analysis.least_common,
                                            !.suggested_game = game.value]
              /\ data' = Rendered(frame, analysis.freq)
    /\ UNCHANGED <<op, args, ret>>

\* The slider, shown when data is loaded, is moved to another value.
MoveSlider ==
    /\ data # NoFrame
    /\ \E new_num_dezenas \in SliderValues \ {session.num_dezenas_to_play} :
         IF Truthy(session.most_common) /\ Truthy(session.least_common)
         THEN \E game \in suggest_numbers(session.most_common, session.least_common,
                                          new_num_dezenas) :
                /\ game.raised = "none"
                /\ session' = [session EXCEPT !.num_dezenas_to_play = new_num_dezenas,
                                              !.suggested_game = game.value]
         ELSE session' = [session EXCEPT !.num_dezenas_to_play = new_num_dezenas]
    /\ data' = Rendered(data, session.freqs)
    /\ UNCHANGED <<op, args, ret>>

\* The button 'Gerar Novo Jogo', shown when data is loaded.
GenerateNewGame ==
    /\ data # NoFrame
    /\ IF Truthy(session.most_common) /\ Truthy(session.least_common)
       THEN \E game \in suggest_numbers(session.most_common, session.least_common,
                                        session.num_dezenas_to_play) :
              /\ game.raised = "none"
              /\ session' = [session EXCEPT !.suggested_game = game.value]
       ELSE UNCHANGED session
    /\ data' = Rendered(data, session.freqs)
    /\ UNCHANGED <<op, args, ret>>

InitSession ==
    /\ data = NoFrame
    /\ op = "idle"
    /\ args = <<>>
    /\ ret = <<>>
    /\ session = InitialSession

NextSession ==
    \/ FetchFails
    \/ FetchSucceeds
    \/ MoveSlider
    \/ GenerateNewGame

SpecSession == InitSession /\ [][NextSession]_vars

(***************************************************************************)
(* Claims about the analysis of a draw history: C2 and C3 are checked       *)
(* under SpecNumbers, the others under Spec.                               *)
(***************************************************************************)
\* The number of records of the history that contain num.
RecordsWith(num) == Cardinality({i \in DOMAIN data.rows : Contains(data.rows[i], num)})

\* The numbers drawn in some record of the history.
Drawn == {num \in HistoryNumbers : RecordsWith(num) > 0}

\* C2: the counts of the frequency table returned by analyze_numbers sum to
\* 6 * len(H), and the count of each number is the number of records of H
\* that contain it (a number in no record has no entry).
C2_CountsMatchRecords ==
    op = "analyze_numbers" =>
        /\ SumSeq(Values(ret.freq)) = DrawSize * Len(data.rows)
        /\ Range(Index(ret.freq)) = Drawn
        /\ \A i \in DOMAIN ret.freq : ret.freq[i][2] = RecordsWith(ret.freq[i][1])

C2_Witness ==
    /\ op = "analyze_numbers"
    /\ Len(data.rows) = 2
    /\ \E i, j \in DOMAIN ret.freq : ret.freq[i][2] = 2 /\ ret.freq[j][2] = 1

\* C3: most_common has min(4, number of distinct numbers drawn) entries, and
\* each of them has a count at least that of every drawn number outside it.
C3_MostCommonIsTop ==
    op = "analyze_numbers" =>
        LET records == [num \in HistoryNumbers |-> RecordsWith(num)]
            drawn   == {num \in HistoryNumbers : records[num] > 0}
            top     == Range(ret.most_common)
        IN  /\ Len(ret.most_common) = Min(4, Cardinality(drawn))
            /\ top \subseteq drawn
            /\ \A m \in top : \A n \in drawn \ top : records[m] >= records[n]

C3_Witness ==
    /\ op = "analyze_numbers"
    /\ Len(ret.most_common) = 4
    /\ \E m \in Range(ret.most_common) :
         \E n \in Drawn \ Range(ret.most_common) : RecordsWith(m) > RecordsWith(n)

\* The largest draw id of the history, and of the records that contain num.
MaxDrawId == SetMax(Concursos(data.rows))
LastDrawIdWith(num) ==
    SetMax({data.rows[i]["Concurso"] : i \in {j \in DOMAIN data.rows : Contains(data.rows[j], num)}})

\* C4: for a non-empty history and a number of interest that is in some
\* record, the delay is the largest draw id of the history minus the largest
\* draw id of the records with the number; it is >= 0, and 0 exactly when the
\* number is in the record with the largest draw id.
C4_DelayIsDistanceToLastDraw ==
    (op = "analyze_delays" /\ ~IsEmpty(data)) =>
        \A num \in Range(args) :
            RecordsWith(num) > 0 =>
                /\ num \in DOMAIN ret
                /\ ret[num] = MaxDrawId - LastDrawIdWith(num)
                /\ ret[num] >= 0
                /\ (ret[num] = 0) <=>
                     (\E i \in DOMAIN data.rows :
                         /\ data.rows[i]["Concurso"] = MaxDrawId
                         /\ Contains(data.rows[i], num))

\* Number 6 is in the draw with id 1 only and the last draw has id 3.
C4_Witness ==
    /\ op = "analyze_delays"
    /\ Len(data.rows) = 2
    /\ data.rows[1]["Concurso"] = 1
    /\ data.rows[2]["Concurso"] = 3
    /\ 6 \in Range(args)
    /\ Contains(data.rows[1], 6) /\ ~Contains(data.rows[2], 6)
    /\ ret[6] = 2

\* C5 as stated: for every history, the empty one included, a number of
\* interest that is in no record has the entry -1 in the delay table.
C5_NeverDrawnIsMinusOne ==
    op = "analyze_delays" =>
        \A num \in Range(args) :
            RecordsWith(num) = 0 => (num \in DOMAIN ret /\ ret[num] = -1)

\* C5 amended: for every non-empty history, a number of interest that is in
\* no record (a number above the largest lottery number included) has the
\* entry -1 in the delay table.
C5_NeverDrawnIsMinusOneNonEmpty ==
    (op = "analyze_delays" /\ ~IsEmpty(data)) =>
        \A num \in Range(args) :
            RecordsWith(num) = 0 => (num \in DOMAIN ret /\ ret[num] = -1)

C5_Witness ==
    /\ op = "analyze_delays"
    /\ ~IsEmpty(data)
    /\ \E num \in Range(args) : num <= MaxNumber /\ RecordsWith(num) = 0 /\ ret[num] = -1
    /\ (MaxNumber + 1) \in Range(args)
    /\ ret[MaxNumber + 1] = -1

\* C6 as stated: no analysis function changes the history it is given: its
\* records and its columns stay what they were.
C6_HistoryUnchanged == [][data' = data]_vars

\* C10: for a non-empty history every key of the parity distribution has
\* even + odd = 6, its value is the number of draws with that many even
\* numbers, and the values sum to len(H); for the empty history both
\* outputs are empty.
DrawsWithEven(k) ==
    Cardinality({i \in DOMAIN data.rows :
        Cardinality({j \in 1 .. DrawSize : data.rows[i][DezenaCols[j]] % 2 = 0}) = k})

C10_ParityDistribution ==
    op = "analyze_drawing_patterns" =>
        LET dist == ret.even_odd_distribution
        IN  IF IsEmpty(data)
            THEN DOMAIN dist = {} /\ DOMAIN ret.general_stats = {}
            ELSE /\ \A lbl \in DOMAIN dist :
                      /\ lbl[1] + lbl[3] = 6
                      /\ dist[lbl] = DrawsWithEven(lbl[1])
                 /\ SumSeq([k \in 1 .. (DrawSize + 1) |->
                        IF Label(k - 1, DrawSize - (k - 1)) \in DOMAIN dist
                        THEN dist[Label(k - 1, DrawSize - (k - 1))] ELSE 0])
                      = Len(data.rows)
                 /\ \A lbl \in DOMAIN dist : \E k \in 0 .. DrawSize : lbl = Label(k, DrawSize - k)

C10_Witness ==
    /\ op = "analyze_drawing_patterns"
    /\ Len(data.rows) = 2
    /\ Cardinality(DOMAIN ret.even_odd_distribution) = 2

(***************************************************************************)
(* Claims about suggest_numbers, checked under SpecSuggest.                *)
(***************************************************************************)
\* A sorted list of distinct numbers of the lottery.
IsSortedSuggestion(list) ==
    /\ \A i \in DOMAIN list : list[i] \in 1 .. MaxNumber
    /\ \A i, j \in DOMAIN list : i < j => list[i] < list[j]

\* C1: for a ticket size n from 6 to the largest number, whatever the lists
\* and the random choices, suggest_numbers returns exactly n numbers, pairwise
\* distinct, all of the lottery, in strictly ascending order.
C1_ExactlyNSortedDistinct ==
    (op = "suggest_numbers" /\ DrawSize <= args.num_to_suggest
                            /\ args.num_to_suggest <= MaxNumber) =>
        /\ ret.raised = "none"
        /\ Len(ret.value) = args.num_to_suggest
        /\ IsSortedSuggestion(ret.value)

\* A ticket of 6 with one hot and one cold number and four random ones.
C1_Witness ==
    /\ op = "suggest_numbers"
    /\ args.num_to_suggest = DrawSize
    /\ args.most_common = <<2>>
    /\ args.least_common = <<1>>
    /\ ret.raised = "none"
    /\ Len(ret.value) = DrawSize
    /\ ret.value[1] = 1 /\ ret.value[2] = 2

\* C7 as stated: for a ticket size below 1 or above the largest number,
\* suggest_numbers raises no exception and returns a sorted list of distinct
\* numbers of the lottery: all of them when the size is above the largest.
C7_NoExceptionOutsideRange ==
    (op = "suggest_numbers" /\ (args.num_to_suggest < 1 \/ args.num_to_suggest > MaxNumber)) =>
        /\ ret.raised = "none"
        /\ IsSortedSuggestion(ret.value)
        /\ args.num_to_suggest > MaxNumber => Range(ret.value) = 1 .. MaxNumber

(***************************************************************************)
(* Claims about the functions of a frequency table, checked under          *)
(* SpecTable.                                                              *)
(***************************************************************************)
\* C8: whenever y is shorter than the window size, explain_anomalies reports
\* the standard deviation 0 and no anomalies, whatever the values in y.
C8_ShortSequenceNoOutliers ==
    (op = "explain_anomalies" /\ Len(args.frequencies) < args.window_size) =>
        /\ ret.raised = "none"
        /\ ret.standard_deviation = 0
        /\ ret.anomalies = <<>>

\* Three unequal counts under a window of four.
C8_Witness ==
    /\ op = "explain_anomalies"
    /\ Len(args.frequencies) = 3
    /\ args.window_size = 4
    /\ Values(args.frequencies) = <<2, 0, 1>>
    /\ ret.standard_deviation = 0
    /\ ret.anomalies = <<>>

RECURSIVE FracSum(_)
FracSum(fracs) == IF fracs = <<>> THEN <<0, 1>> ELSE FracAdd(Head(fracs), FracSum(Tail(fracs)))

\* The sum of the counts of the table the call was given.
CountsTotal == SumSeq([i \in DOMAIN args.frequencies |-> args.frequencies[i][2]])

\* C9: for a non-empty table with a positive total, each number is mapped to
\* 100 * count / (sum of the counts), the values sum to 100 and do not
\* increase along the result; for an empty table or a zero total the result
\* is empty.
C9_Probabilities ==
    op = "calculate_probabilities" =>
        IF args.frequencies = <<>> \/ CountsTotal = 0
        THEN ret = <<>>
        ELSE /\ Len(ret) = Len(args.frequencies)
             /\ \A i \in DOMAIN args.frequencies :
                  \E j \in DOMAIN ret :
                     /\ ret[j][1] = args.frequencies[i][1]
                     /\ ret[j][2][2] > 0
                     /\ ret[j][2][1] * CountsTotal = 100 * args.frequencies[i][2] * ret[j][2][2]
             /\ LET sum == FracSum(Values(ret)) IN sum[1] = 100 * sum[2]
             /\ \A j \in 1 .. (Len(ret) - 1) : FracLeq(ret[j + 1][2], ret[j][2])

\* Counts 1, 2, 0 give 66.6..%, 33.3..% and 0%, in that order.
C9_Witness ==
    /\ op = "calculate_probabilities"
    /\ Values(args.frequencies) = <<1, 2, 0>>
    /\ Index(args.frequencies) = <<1, 2, 3>>
    /\ Index(ret) = <<2, 1, 3>>
    /\ Values(ret) = <<(<<200, 3>>), (<<100, 3>>), (<<0, 3>>)>>

RECURSIVE SkippingDuplicates(_, _, _)
\* The set after the second loop as C11 reads it: a number already in the set
\* is skipped and the loop goes on while there is room.
SkippingDuplicates(least_common, suggested_set, num_to_suggest) ==
    IF least_common = <<>> \/ Cardinality(suggested_set) >= num_to_suggest
    THEN suggested_set
    ELSE SkippingDuplicates(Tail(least_common), suggested_set \cup {Head(least_common)},
                            num_to_suggest)

\* The first min(n, len(most_common)) numbers of most_common.
FirstMostCommon ==
    {args.most_common[i] : i \in 1 .. Min(Max(args.num_to_suggest, 0), Len(args.most_common))}

\* C11 as stated: every number of least_common that is not yet in the set is
\* added while the set is smaller than the ticket size, also after a number
\* of least_common that was a duplicate: the result holds all of them (with
\* most_common = [1], least_common = [1, 2] and ticket size 6 it holds 2).
C11_DuplicatesAreSkipped ==
    (op = "suggest_numbers" /\ args.num_to_suggest >= 0) =>
        SkippingDuplicates(args.least_common, FirstMostCommon, args.num_to_suggest)
            \subseteq Range(ret.value)


\* C12 as stated: for a table of length L >= 1 the window size analyze_outliers
\* uses is max(1, min(10, L div 2)), never 0, and a table with a single entry
\* has no outlier.
C12_WindowAtLeastOne ==
    (op = "analyze_outliers" /\ Len(args.frequencies) >= 1) =>
        /\ DefaultWindowSize(args.frequencies)
             = Max(1, Min(WindowCap, Len(args.frequencies) \div 2))
        /\ DefaultWindowSize(args.frequencies) # 0
        /\ Len(args.frequencies) = 1 => ret.outliers = <<>>


\* C13: for a ticket size n >= 0 the returned list holds each of the first
\* min(n, len(most_common)) numbers of most_common, and has at most n numbers:
\* the set never grows beyond n, so no number is sampled away.
C13_MostCommonKept ==
    (op = "suggest_numbers" /\ args.num_to_suggest >= 0) =>
        /\ ret.raised = "none"
        /\ FirstMostCommon \subseteq Range(ret.value)
        /\ Len(ret.value) <= args.num_to_suggest

\* A ticket of two out of three hot numbers: the first two are kept.
C13_Witness ==
    /\ op = "suggest_numbers"
    /\ args.num_to_suggest = 2
    /\ args.most_common = <<3, 1, 2>>
    /\ ret.value = <<1, 3>>

\* C14 as stated: after any sequence of fetches, slider moves and new games, a
\* suggestion that is not empty has as many numbers as the ticket size of the
\* session state, so a move of the slider leaves no suggestion of the old size.
C14_SuggestionHasTicketSize ==
    session.suggested_game # <<>> =>
        Len(session.suggested_game) = session.num_dezenas_to_play

====
